---------------------------- MODULE Spec2Model ----------------------------
(***************************************************************************)
(* A model of the safe_dsa sorting library: the seven in-place sorts of    *)
(* src/sorting, their debug-only contracts, the ordering predicates of     *)
(* helper.rs and the differential harness of sort_test_helper.rs.          *)
(*                                                                         *)
(* A call of a sort is a pure function of the slice it is given, so each   *)
(* sort is an operator on a "run" record: the slice, the status of the     *)
(* call (a debug build panics at the first failed bounds check, overflow   *)
(* check or contract), the number of loop iterations and calls made so far *)
(* and a log of the events the termination argument needs.  The loops of   *)
(* the source are RECURSIVE operators that follow the source statement by  *)
(* statement; indices are 0-based as in the source.                        *)
(***************************************************************************)
EXTENDS Integers, Sequences, FiniteSets, TLC

VARIABLES arr, original, alg, lo, hi, calls, run, first, probe

vars == <<arr, original, alg, lo, hi, calls, run, first, probe>>

---------------------------------------------------------------------------
(* Bounds of the model *)

\* longest input enumerated over the three-value domain
MaxLen == 4
\* width in bits of the index type (usize) in the model
W == 4
\* longest input enumerated over the two extreme values (capped by MaxSliceLen)
MaxLenW == 7
\* loop iterations and calls a single sort may make before it is given up
MaxSteps == 300
\* longest input of the runs that look at Shell sort's gaps
MaxGapLen == 15
\* longest input of the runs that look at the depth of quicksort
MaxQuickLen == 8
\* width in bits of the word (u64) in the model of Fp
FieldBits == 5

\* the largest index value, usize::MAX
UMax == 2^W - 1
\* the largest slice length, isize::MAX
MaxSliceLen == 2^(W - 1) - 1
\* the extremes of the element type, isize::MIN and isize::MAX
IntMin == 0 - 2^(W - 1)
IntMax == 2^(W - 1) - 1

---------------------------------------------------------------------------
(* Elements: a key, which is all the order looks at, and a tag that        *)
(* records the position the element had in the input.                      *)

Key(x) == x[1]
Tag(x) == x[2]
Keys(s) == [i \in 1..Len(s) |-> Key(s[i])]

Lt(x, y) == Key(x) < Key(y)
Le(x, y) == Key(x) <= Key(y)
Gt(x, y) == Key(x) > Key(y)
Ge(x, y) == Key(x) >= Key(y)

\* arr[i], 0-based
At(s, i) == s[i + 1]
\* arr[l..h], 0-based and half open
Slice(s, l, h) == SubSeq(s, l + 1, h)
\* arr.swap(i, j)
Swap(s, i, j) == [s EXCEPT ![i + 1] = s[j + 1], ![j + 1] = s[i + 1]]
\* arr[i] = x
Put(s, i, x) == [s EXCEPT ![i + 1] = x]
\* arr[l..h].clone_from_slice(t)
Splice(s, l, h, t) == Slice(s, 0, l) \o t \o Slice(s, h, Len(s))

---------------------------------------------------------------------------
(* The run of a call *)

\* v is evaluated once and F applied to its value
Let(v, F(_)) == CHOOSE y \in {F(x) : x \in {v}} : TRUE

Start(s) == [a |-> s, st |-> "ok", n |-> 0, log |-> <<>>]

Ok(r) == r.st = "ok"

\* the call ends here: a panic, or the step budget is spent
Panic(r, kind) == Let(r, LAMBDA x : IF Ok(x) THEN [x EXCEPT !.st = kind] ELSE x)

\* one more loop iteration or call
Tick(r) ==
    Let(r, LAMBDA x :
        IF ~Ok(x) THEN x
        ELSE IF x.n >= MaxSteps THEN [x EXCEPT !.st = "fuel"]
        ELSE [x EXCEPT !.n = @ + 1])

\* usize arithmetic: a debug build panics when a result leaves 0..usize::MAX
Arith(r, results) ==
    IF \E v \in results : v < 0 \/ v > UMax THEN Panic(r, "ovf") ELSE r

\* s[i] for every i of idxs: the bounds check of slice indexing
Index(r, s, idxs) ==
    IF \E i \in idxs : i < 0 \/ i >= Len(s) THEN Panic(r, "oob") ELSE r

\* s[l..h]: the bounds check of taking a sub-slice
Range(r, s, l, h) ==
    IF 0 <= l /\ l <= h /\ h <= Len(s) THEN r ELSE Panic(r, "oob")

\* debug_assert!, debug_requires, debug_ensures: evaluated only in a run that
\* is still going
Check(r, cond) ==
    Let(r, LAMBDA x : IF Ok(x) /\ ~cond THEN [x EXCEPT !.st = "assert"] ELSE x)

Log(r, e) == Let(r, LAMBDA x : IF Ok(x) THEN [x EXCEPT !.log = Append(@, e)] ELSE x)

---------------------------------------------------------------------------
(* helper.rs: the ordering predicates *)

\* for i in 1..arr.len() { if arr[i - 1] > arr[i] { return false } } true
RECURSIVE is_sorted_from(_, _)
is_sorted_from(s, i) ==
    IF i >= Len(s) THEN TRUE
    ELSE IF Gt(At(s, i - 1), At(s, i)) THEN FALSE
    ELSE is_sorted_from(s, i + 1)

\* the mutant: the loop starts one pair late
is_sorted_late(s) == is_sorted_from(s, 2)

is_sorted(s) == is_sorted_from(s, 1)

\* arr.iter().max(): the last of the maximal elements, from best = arr[0]
RECURSIVE iter_max(_, _, _)
iter_max(s, i, best) ==
    IF i >= Len(s) THEN best
    ELSE Let(IF Ge(At(s, i), best) THEN At(s, i) ELSE best,
             LAMBDA b : iter_max(s, i + 1, b))

\* arr.iter().min(): the first of the minimal elements, from best = arr[0]
RECURSIVE iter_min(_, _, _)
iter_min(s, i, best) ==
    IF i >= Len(s) THEN best
    ELSE Let(IF Lt(At(s, i), best) THEN At(s, i) ELSE best,
             LAMBDA b : iter_min(s, i + 1, b))

\* match arr.iter().max() { Some(max) => x > max, None => true }
gt_seg(x, s) == IF Len(s) = 0 THEN TRUE ELSE Gt(x, iter_max(s, 1, At(s, 0)))

\* match arr.iter().min() { Some(min) => x < min, None => true }
lt_seg(x, s) == IF Len(s) = 0 THEN TRUE ELSE Lt(x, iter_min(s, 1, At(s, 0)))

\* the mutant: the maximum of arr1 is compared, not its minimum
gt_segs_max1(s1, s2) ==
    IF Len(s1) = 0 \/ Len(s2) = 0 THEN TRUE
    ELSE Gt(iter_max(s1, 1, At(s1, 0)), iter_max(s2, 1, At(s2, 0)))

\* match (min1, max2) { (Some(a), Some(b)) => a > b, _ => true }
gt_segs(s1, s2) ==
    IF Len(s1) = 0 \/ Len(s2) = 0 THEN TRUE
    ELSE Gt(iter_min(s1, 1, At(s1, 0)), iter_max(s2, 1, At(s2, 0)))

\* match (min1, max2) { (Some(a), Some(b)) => a >= b, _ => true }
ge_segs(s1, s2) ==
    IF Len(s1) = 0 \/ Len(s2) = 0 THEN TRUE
    ELSE Ge(iter_min(s1, 1, At(s1, 0)), iter_max(s2, 1, At(s2, 0)))

\* match (max1, min2) { (Some(a), Some(b)) => a < b, _ => true }
lt_segs(s1, s2) ==
    IF Len(s1) = 0 \/ Len(s2) = 0 THEN TRUE
    ELSE Lt(iter_max(s1, 1, At(s1, 0)), iter_min(s2, 1, At(s2, 0)))

\* match arr.iter().max() { Some(max) => x >= max, None => true }
ge_seg(x, s) == IF Len(s) = 0 THEN TRUE ELSE Ge(x, iter_max(s, 1, At(s, 0)))

\* match arr.iter().min() { Some(min) => x <= min, None => true }
le_seg(x, s) == IF Len(s) = 0 THEN TRUE ELSE Le(x, iter_min(s, 1, At(s, 0)))

\* match (max1, min2) { (Some(a), Some(b)) => a <= b, _ => true }
le_segs(s1, s2) ==
    IF Len(s1) = 0 \/ Len(s2) = 0 THEN TRUE
    ELSE Le(iter_max(s1, 1, At(s1, 0)), iter_min(s2, 1, At(s2, 0)))

\* #[debug_ensures(is_sorted(arr))]
EnsuresSorted(r) == Check(r, is_sorted(r.a))

\* debug_assert!(is_sorted(&arr[l..h])): the sub-slice is taken, then checked
CheckSorted(r, l, h) ==
    Let(Range(r, r.a, l, h),
        LAMBDA r1 : IF Ok(r1) THEN Check(r1, is_sorted(Slice(r1.a, l, h))) ELSE r1)

---------------------------------------------------------------------------
(* bubble_sort.rs *)

\* the mutant: the pass runs over 1..=n
RECURSIVE bubble_pass_inclusive(_, _, _, _)
bubble_pass_inclusive(r, n, i, flag) ==
    IF ~Ok(r) \/ i > n THEN [r |-> r, flag |-> flag]
    ELSE Let(Index(Arith(Tick(r), {i - 1}), r.a, {i - 1, i}), LAMBDA r1 :
         IF ~Ok(r1) THEN [r |-> r1, flag |-> flag]
         ELSE IF ~Le(At(r1.a, i - 1), At(r1.a, i))
              THEN bubble_pass_inclusive([r1 EXCEPT !.a = Swap(@, i - 1, i)],
                                         n, i + 1, TRUE)
              ELSE bubble_pass_inclusive(r1, n, i + 1, flag))

\* for i in 1..n { if !(arr[i - 1] <= arr[i]) { flag = true; arr.swap(i - 1, i) } }
RECURSIVE bubble_pass(_, _, _, _)
bubble_pass(r, n, i, flag) ==
    IF ~Ok(r) \/ i >= n THEN [r |-> r, flag |-> flag]
    ELSE Let(Index(Arith(Tick(r), {i - 1}), r.a, {i - 1, i}), LAMBDA r1 :
         IF ~Ok(r1) THEN [r |-> r1, flag |-> flag]
         ELSE IF ~Le(At(r1.a, i - 1), At(r1.a, i))
              THEN bubble_pass([r1 EXCEPT !.a = Swap(@, i - 1, i)], n, i + 1, TRUE)
              ELSE bubble_pass(r1, n, i + 1, flag))

\* the mutant: the loop is left after the first pass that did swap
RECURSIVE bubble_loop_break_on_swap(_, _, _)
bubble_loop_break_on_swap(r, n, cnt) ==
    IF ~Ok(r) \/ cnt > n THEN r
    ELSE Let(bubble_pass(Tick(r), n, 1, FALSE), LAMBDA p :
         Let(Log(p.r, <<"pass", cnt, p.flag, p.r.a>>), LAMBDA r1 :
         IF ~Ok(r1) \/ p.flag THEN r1
         ELSE bubble_loop_break_on_swap(r1, n, cnt + 1)))

\* the mutant: the loop is not left after a pass without a swap
RECURSIVE bubble_loop_no_break(_, _, _)
bubble_loop_no_break(r, n, cnt) ==
    IF ~Ok(r) \/ cnt > n THEN r
    ELSE Let(bubble_pass(Tick(r), n, 1, FALSE), LAMBDA p :
         Let(Log(p.r, <<"pass", cnt, p.flag, p.r.a>>), LAMBDA r1 :
         IF ~Ok(r1) THEN r1
         ELSE Let(CheckSorted(Arith(r1, {n - cnt}), n - cnt, n), LAMBDA r2 :
              bubble_loop_no_break(r2, n, cnt + 1))))

\* for cnt in 1..=n { flag = false; pass; if !flag { break };
\*                    debug_assert!(is_sorted(&arr[n - cnt..])) }
\* each pass is logged with cnt, flag and the slice as the pass left it
RECURSIVE bubble_loop(_, _, _)
bubble_loop(r, n, cnt) ==
    IF ~Ok(r) \/ cnt > n THEN r
    ELSE Let(bubble_pass(Tick(r), n, 1, FALSE), LAMBDA p :
         Let(Log(p.r, <<"pass", cnt, p.flag, p.r.a>>), LAMBDA r1 :
         IF ~Ok(r1) \/ ~p.flag THEN r1
         ELSE Let(CheckSorted(Arith(r1, {n - cnt}), n - cnt, n), LAMBDA r2 :
              bubble_loop(r2, n, cnt + 1))))

bubble_sort(r) == EnsuresSorted(bubble_loop(r, Len(r.a), 1))

---------------------------------------------------------------------------
(* selection_sort.rs *)

\* the mutant: the scan keeps the largest element (arr[j] > arr[k])
RECURSIVE selection_scan_max(_, _, _, _)
selection_scan_max(r, n, j, k) ==
    IF ~Ok(r) \/ j >= n THEN [r |-> r, k |-> k]
    ELSE Let(Index(Tick(r), r.a, {j, k}), LAMBDA r1 :
         IF ~Ok(r1) THEN [r |-> r1, k |-> k]
         ELSE Let(IF Gt(At(r1.a, j), At(r1.a, k)) THEN j ELSE k, LAMBDA k1 :
              selection_scan_max(r1, n, j + 1, k1)))

\* for j in (i + 1)..n { if arr[j] < arr[k] { k = j } }
RECURSIVE selection_scan(_, _, _, _)
selection_scan(r, n, j, k) ==
    IF ~Ok(r) \/ j >= n THEN [r |-> r, k |-> k]
    ELSE Let(Index(Tick(r), r.a, {j, k}), LAMBDA r1 :
         IF ~Ok(r1) THEN [r |-> r1, k |-> k]
         ELSE Let(IF Lt(At(r1.a, j), At(r1.a, k)) THEN j ELSE k, LAMBDA k1 :
              selection_scan(r1, n, j + 1, k1)))

\* for i in 0..n { k = i; scan; arr.swap(i, k);
\*                 debug_assert!(is_sorted(&arr[..=i]));
\*                 debug_assert!(le_segs(&arr[..=i], &arr[i + 1..])) }
RECURSIVE selection_loop(_, _, _)
selection_loop(r, n, i) ==
    IF ~Ok(r) \/ i >= n THEN r
    ELSE Let(selection_scan(Arith(Tick(r), {i + 1}), n, i + 1, i), LAMBDA s :
         Let(Index(s.r, s.r.a, {i, s.k}), LAMBDA r1 :
         Let(IF Ok(r1) THEN [r1 EXCEPT !.a = Swap(@, i, s.k)] ELSE r1, LAMBDA r2 :
         Let(Range(CheckSorted(r2, 0, i + 1), r2.a, i + 1, n), LAMBDA r3 :
         Let(IF Ok(r3)
             THEN Check(r3, le_segs(Slice(r3.a, 0, i + 1), Slice(r3.a, i + 1, n)))
             ELSE r3, LAMBDA r4 :
         selection_loop(r4, n, i + 1))))))

selection_sort(r) == EnsuresSorted(selection_loop(r, Len(r.a), 0))

---------------------------------------------------------------------------
(* insertion_sort.rs *)

\* the mutant: arr[j - 1] is read before j > 0 is known
RECURSIVE insertion_shift_unguarded(_, _, _)
insertion_shift_unguarded(r, key, j) ==
    IF ~Ok(r) THEN [r |-> r, j |-> j]
    ELSE Let(Index(Arith(r, {j - 1}), r.a, {j - 1}), LAMBDA r1 :
         IF ~Ok(r1) THEN [r |-> r1, j |-> j]
         ELSE IF ~Gt(At(r1.a, j - 1), key) THEN [r |-> r1, j |-> j]
         ELSE Let(Index(Tick(r1), r1.a, {j}), LAMBDA r2 :
              IF ~Ok(r2) THEN [r |-> r2, j |-> j]
              ELSE insertion_shift_unguarded(
                       [r2 EXCEPT !.a = Put(@, j, At(r2.a, j - 1))], key, j - 1)))

\* the mutant: elements equal to the key are shifted too
RECURSIVE insertion_shift_ge(_, _, _)
insertion_shift_ge(r, key, j) ==
    IF ~Ok(r) \/ ~(j > 0) THEN [r |-> r, j |-> j]
    ELSE Let(Index(Arith(r, {j - 1}), r.a, {j - 1}), LAMBDA r1 :
         IF ~Ok(r1) THEN [r |-> r1, j |-> j]
         ELSE IF ~Ge(At(r1.a, j - 1), key) THEN [r |-> r1, j |-> j]
         ELSE Let(Index(Tick(r1), r1.a, {j}), LAMBDA r2 :
              IF ~Ok(r2) THEN [r |-> r2, j |-> j]
              ELSE insertion_shift_ge([r2 EXCEPT !.a = Put(@, j, At(r2.a, j - 1))],
                                      key, j - 1)))

\* while j > 0 && arr[j - 1] > key { arr[j] = arr[j - 1].clone(); j -= 1 }
RECURSIVE insertion_shift(_, _, _)
insertion_shift(r, key, j) ==
    IF ~Ok(r) \/ ~(j > 0) THEN [r |-> r, j |-> j]
    ELSE Let(Index(Arith(r, {j - 1}), r.a, {j - 1}), LAMBDA r1 :
         IF ~Ok(r1) THEN [r |-> r1, j |-> j]
         ELSE IF ~Gt(At(r1.a, j - 1), key) THEN [r |-> r1, j |-> j]
         ELSE Let(Index(Tick(r1), r1.a, {j}), LAMBDA r2 :
              IF ~Ok(r2) THEN [r |-> r2, j |-> j]
              ELSE insertion_shift([r2 EXCEPT !.a = Put(@, j, At(r2.a, j - 1))],
                                   key, j - 1)))

\* the mutant: the key is not written back after the shifts
insertion_place_lost(r, i) ==
    Let(Index(r, r.a, {i}), LAMBDA r1 :
    IF ~Ok(r1) THEN r1 ELSE insertion_shift(r1, At(r1.a, i), i).r)

\* let key = arr[i].clone(); let mut j = i; shift; arr[j] = key
insertion_place(r, i) ==
    Let(Index(r, r.a, {i}), LAMBDA r1 :
    IF ~Ok(r1) THEN r1
    ELSE Let(insertion_shift(r1, At(r1.a, i), i), LAMBDA s :
         Let(Index(s.r, s.r.a, {s.j}), LAMBDA r2 :
         IF Ok(r2) THEN [r2 EXCEPT !.a = Put(@, s.j, At(r1.a, i))] ELSE r2)))

\* for i in 1..n { debug_assert!(is_sorted(&arr[0..i])); place;
\*                 debug_assert!(is_sorted(&arr[0..=i])) }
RECURSIVE insertion_loop(_, _, _)
insertion_loop(r, n, i) ==
    IF ~Ok(r) \/ i >= n THEN r
    ELSE Let(CheckSorted(Tick(r), 0, i), LAMBDA r1 :
         Let(insertion_place(r1, i), LAMBDA r2 :
         Let(CheckSorted(Arith(r2, {i + 1}), 0, i + 1), LAMBDA r3 :
         insertion_loop(r3, n, i + 1))))

insertion_sort(r) == EnsuresSorted(insertion_loop(r, Len(r.a), 1))

---------------------------------------------------------------------------
(* shell_sort_a003462.rs *)

\* the mutant: the gap grows while k <= n / 3
RECURSIVE shell_grow_le(_, _, _)
shell_grow_le(r, n, k) ==
    IF ~Ok(r) \/ ~(k <= n \div 3) THEN [r |-> r, k |-> k]
    ELSE Let(Arith(Tick(r), {3 * k, 3 * k + 1}), LAMBDA r1 :
         IF ~Ok(r1) THEN [r |-> r1, k |-> k]
         ELSE shell_grow_le(r1, n, 3 * k + 1))

\* while k < n / 3 { k = 3 * k + 1 }
RECURSIVE shell_grow(_, _, _)
shell_grow(r, n, k) ==
    IF ~Ok(r) \/ ~(k < n \div 3) THEN [r |-> r, k |-> k]
    ELSE Let(Arith(Tick(r), {3 * k, 3 * k + 1}), LAMBDA r1 :
         IF ~Ok(r1) THEN [r |-> r1, k |-> k]
         ELSE shell_grow(r1, n, 3 * k + 1))

\* while j >= k && arr[j - k] > tmp { arr[j] = arr[j - k].clone(); j -= k }
RECURSIVE shell_shift(_, _, _, _)
shell_shift(r, k, tmp, j) ==
    IF ~Ok(r) \/ ~(j >= k) THEN [r |-> r, j |-> j]
    ELSE Let(Index(Arith(r, {j - k}), r.a, {j - k}), LAMBDA r1 :
         IF ~Ok(r1) THEN [r |-> r1, j |-> j]
         ELSE IF ~Gt(At(r1.a, j - k), tmp) THEN [r |-> r1, j |-> j]
         ELSE Let(Index(Tick(r1), r1.a, {j}), LAMBDA r2 :
              IF ~Ok(r2) THEN [r |-> r2, j |-> j]
              ELSE shell_shift([r2 EXCEPT !.a = Put(@, j, At(r2.a, j - k))],
                               k, tmp, j - k)))

\* for i in k..n { tmp = arr[i].clone(); j = i; shift; arr[j] = tmp }
RECURSIVE shell_pass(_, _, _, _)
shell_pass(r, n, k, i) ==
    IF ~Ok(r) \/ i >= n THEN r
    ELSE Let(Index(Tick(r), r.a, {i}), LAMBDA r1 :
         IF ~Ok(r1) THEN r1
         ELSE Let(shell_shift(r1, k, At(r1.a, i), i), LAMBDA s :
              Let(Index(s.r, s.r.a, {s.j}), LAMBDA r2 :
              Let(IF Ok(r2) THEN [r2 EXCEPT !.a = Put(@, s.j, At(r1.a, i))] ELSE r2,
                  LAMBDA r3 : shell_pass(r3, n, k, i + 1)))))

\* the mutant: the loop runs while k > 1, so the pass at gap 1 is never made
RECURSIVE shell_gaps_no_last(_, _, _)
shell_gaps_no_last(r, n, k) ==
    IF ~Ok(r) THEN r
    ELSE IF ~(k > 1) THEN Log(r, <<"gaps_end", k>>)
    ELSE Let(shell_pass(Log(Tick(r), <<"gap", k>>), n, k, k), LAMBDA r1 :
         shell_gaps_no_last(r1, n, k \div 3))

\* while k >= 1 { pass at gap k; k /= 3 }
RECURSIVE shell_gaps(_, _, _)
shell_gaps(r, n, k) ==
    IF ~Ok(r) THEN r
    ELSE IF ~(k >= 1) THEN Log(r, <<"gaps_end", k>>)
    ELSE Let(shell_pass(Log(Tick(r), <<"gap", k>>), n, k, k), LAMBDA r1 :
         shell_gaps(r1, n, k \div 3))

shell_sort(r) ==
    Let(shell_grow(r, Len(r.a), 1), LAMBDA g :
    EnsuresSorted(shell_gaps(g.r, Len(r.a), g.k)))

---------------------------------------------------------------------------
(* heap_sort.rs *)

\* for i in 1..arr.len() { parent = (i - 1) / 2;
\*                         if arr[parent] < arr[i] { return false } } true
RECURSIVE is_heap_from(_, _)
is_heap_from(s, i) ==
    IF i >= Len(s) THEN TRUE
    ELSE IF Lt(At(s, (i - 1) \div 2), At(s, i)) THEN FALSE
    ELSE is_heap_from(s, i + 1)

is_heap(s) == is_heap_from(s, 1)

\* the mutant: the right child is looked at only when child + 1 < end
sift_pick_short(r, end, child) ==
    Let(Arith(r, {child + 1}), LAMBDA r1 :
    IF ~Ok(r1) \/ ~(child + 1 < end) THEN [r |-> r1, child |-> child]
    ELSE Let(Index(r1, r1.a, {child, child + 1}), LAMBDA r2 :
         IF ~Ok(r2) THEN [r |-> r2, child |-> child]
         ELSE IF Lt(At(r2.a, child), At(r2.a, child + 1))
              THEN [r |-> r2, child |-> child + 1]
              ELSE [r |-> r2, child |-> child]))

\* if child + 1 <= end && arr[child] < arr[child + 1] { child += 1 }
sift_pick(r, end, child) ==
    Let(Arith(r, {child + 1}), LAMBDA r1 :
    IF ~Ok(r1) \/ ~(child + 1 <= end) THEN [r |-> r1, child |-> child]
    ELSE Let(Index(r1, r1.a, {child, child + 1}), LAMBDA r2 :
         IF ~Ok(r2) THEN [r |-> r2, child |-> child]
         ELSE IF Lt(At(r2.a, child), At(r2.a, child + 1))
              THEN [r |-> r2, child |-> child + 1]
              ELSE [r |-> r2, child |-> child]))

\* each iteration is logged with the parent, the child picked, whether they
\* were swapped and the slice as the comparison found it
\* while child <= end { debug_assert_eq!(child / 2, parent); pick;
\*     if arr[parent] >= arr[child] { return }
\*     arr.swap(parent, child); parent = child; child = parent * 2 + 1 }
RECURSIVE sift_loop(_, _, _, _)
sift_loop(r, end, parent, child) ==
    IF ~Ok(r) \/ ~(child <= end) THEN r
    ELSE Let(sift_pick(Check(Tick(r), child \div 2 = parent), end, child), LAMBDA c :
         Let(Index(c.r, c.r.a, {parent, c.child}), LAMBDA r1 :
         IF ~Ok(r1) THEN r1
         ELSE IF Ge(At(r1.a, parent), At(r1.a, c.child))
              THEN Log(r1, <<"sift", parent, c.child, FALSE, r1.a>>)
         ELSE Let(Arith(Log([r1 EXCEPT !.a = Swap(@, parent, c.child)],
                            <<"sift", parent, c.child, TRUE, r1.a>>),
                        {c.child * 2, c.child * 2 + 1}), LAMBDA r2 :
              sift_loop(r2, end, c.child, c.child * 2 + 1))))

\* #[debug_requires(start <= end && end < arr.len())]
\* parent = start; child = parent * 2 + 1; the loop
sift_down(r, start, end) ==
    Let(Arith(Check(r, start <= end /\ end < Len(r.a)), {start * 2, start * 2 + 1}),
        LAMBDA r1 : sift_loop(r1, end, start, start * 2 + 1))

\* for i in (0..n / 2).rev() { sift_down(arr, i, n - 1) }: from i down to 0
RECURSIVE heap_build(_, _, _)
heap_build(r, n, i) ==
    IF ~Ok(r) \/ i < 0 THEN r
    ELSE Let(sift_down(Arith(Tick(r), {n - 1}), i, n - 1), LAMBDA r1 :
         heap_build(r1, n, i - 1))

\* for i in (1..n).rev() { debug_assert!(is_sorted(&arr[i..]));
\*     arr.swap(0, i); sift_down(arr, 0, i - 1);
\*     debug_assert!(is_heap(&arr[0..i])); debug_assert!(ge_seg(&arr[0], &arr[0..i]));
\*     debug_assert!(is_sorted(&arr[i - 1..])) }: from i down to 1
RECURSIVE heap_extract(_, _, _)
heap_extract(r, n, i) ==
    IF ~Ok(r) \/ i < 1 THEN r
    ELSE Let(Index(CheckSorted(Tick(r), i, n), r.a, {0, i}), LAMBDA r1 :
         Let(IF Ok(r1) THEN [r1 EXCEPT !.a = Swap(@, 0, i)] ELSE r1, LAMBDA r2 :
         Let(sift_down(Arith(r2, {i - 1}), 0, i - 1), LAMBDA r3 :
         Let(Index(Range(r3, r3.a, 0, i), r3.a, {0}), LAMBDA r4 :
         Let(IF Ok(r4)
             THEN Check(Check(r4, is_heap(Slice(r4.a, 0, i))),
                        ge_seg(At(r4.a, 0), Slice(r4.a, 0, i)))
             ELSE r4, LAMBDA r5 :
         Let(CheckSorted(r5, i - 1, n), LAMBDA r6 :
         heap_extract(r6, n, i - 1)))))))

\* debug_assert!(is_heap(arr)); debug_assert!(n == 0 || ge_seg(&arr[0], &arr))
heap_built(r, n) ==
    Let(Check(r, is_heap(r.a)), LAMBDA r1 :
    IF n = 0 \/ ~Ok(r1) THEN r1
    ELSE Let(Index(r1, r1.a, {0}), LAMBDA r2 :
         IF Ok(r2) THEN Check(r2, ge_seg(At(r2.a, 0), r2.a)) ELSE r2))

\* the mutant: the build loop runs over (0..n / 2 - 1).rev(), one parent short
heap_sort_short_build(r) ==
    Let(heap_build(Arith(r, {Len(r.a) \div 2 - 1}), Len(r.a), Len(r.a) \div 2 - 2),
        LAMBDA r1 :
    Let(heap_built(r1, Len(r.a)), LAMBDA r2 :
    EnsuresSorted(heap_extract(r2, Len(r.a), Len(r.a) - 1))))

heap_sort(r) ==
    Let(heap_build(r, Len(r.a), Len(r.a) \div 2 - 1), LAMBDA r1 :
    Let(heap_built(r1, Len(r.a)), LAMBDA r2 :
    EnsuresSorted(heap_extract(r2, Len(r.a), Len(r.a) - 1))))

---------------------------------------------------------------------------
(* merge_sort.rs *)

\* the mutant: a tie takes the front of b (b[j] <= a[i])
merge_front_le(r, a, b, i, j) ==
    IF i = Len(a) THEN [r |-> r, takeB |-> TRUE]
    ELSE IF j = Len(b) THEN [r |-> r, takeB |-> FALSE]
    ELSE Let(Index(Index(r, b, {j}), a, {i}), LAMBDA r1 :
         [r |-> r1, takeB |-> Ok(r1) /\ Le(At(b, j), At(a, i))])

\* i == a.len() || (j != b.len() && b[j] < a[i]), with the reads it makes
merge_front(r, a, b, i, j) ==
    IF i = Len(a) THEN [r |-> r, takeB |-> TRUE]
    ELSE IF j = Len(b) THEN [r |-> r, takeB |-> FALSE]
    ELSE Let(Index(Index(r, b, {j}), a, {i}), LAMBDA r1 :
         [r |-> r1, takeB |-> Ok(r1) /\ Lt(At(b, j), At(a, i))])

\* while i < a.len() || j < b.len() {
\*     if front { result[i + j] = b[j].clone(); j += 1 }
\*     else { result[i + j] = a[i].clone(); i += 1 }
\*     debug_assert!(is_sorted(&result[..i + j])) }
\* the run holds the result buffer
RECURSIVE merge_loop(_, _, _, _, _)
merge_loop(r, a, b, i, j) ==
    IF ~Ok(r) \/ ~(i < Len(a) \/ j < Len(b)) THEN [r |-> r, i |-> i, j |-> j]
    ELSE Let(merge_front(Tick(r), a, b, i, j), LAMBDA f :
         Let(Index(Index(Arith(f.r, {i + j}), f.r.a, {i + j}),
                   IF f.takeB THEN b ELSE a, {IF f.takeB THEN j ELSE i}), LAMBDA r1 :
         IF ~Ok(r1) THEN [r |-> r1, i |-> i, j |-> j]
         ELSE Let([i |-> IF f.takeB THEN i ELSE i + 1,
                   j |-> IF f.takeB THEN j + 1 ELSE j,
                   x |-> IF f.takeB THEN At(b, j) ELSE At(a, i)], LAMBDA t :
              Let(CheckSorted(Arith([r1 EXCEPT !.a = Put(@, i + j, t.x)],
                                    {t.i, t.j, t.i + t.j}), 0, t.i + t.j), LAMBDA r2 :
              merge_loop(r2, a, b, t.i, t.j)))))

\* #[debug_requires(result.len() >= a.len() + b.len())]
\* #[debug_requires(is_sorted(a))] #[debug_requires(is_sorted(b))]
\* the loop; debug_assert!(i == a.len() && j == b.len());
\* #[debug_ensures(is_sorted(result))]
\* body: the body ran to its end, where the postcondition is evaluated
merge(r, a, b) ==
    Let(Check(Check(Check(Arith(r, {Len(a) + Len(b)}),
            Len(r.a) >= Len(a) + Len(b)), is_sorted(a)), is_sorted(b)), LAMBDA r1 :
    Let(merge_loop(r1, a, b, 0, 0), LAMBDA m :
    Let(Check(m.r, m.i = Len(a) /\ m.j = Len(b)), LAMBDA r2 :
    [r |-> EnsuresSorted(r2), i |-> m.i, j |-> m.j, body |-> Ok(r2)])))

\* the mutant: the merged buffer is copied to the front of arr (arr[..r - l])
merge_halves_front(r, l, mid, h) ==
    Let(Range(Range(Range(r, r.a, l, h), r.a, l, mid), r.a, mid, h), LAMBDA r1 :
    IF ~Ok(r1) THEN r1
    ELSE Let(merge([r1 EXCEPT !.a = Slice(r1.a, l, h)],
                   Slice(r1.a, l, mid), Slice(r1.a, mid, h)).r, LAMBDA m :
         IF ~Ok(m) THEN [m EXCEPT !.a = r1.a]
         ELSE IF Len(m.a) # h - l THEN Panic([m EXCEPT !.a = r1.a], "oob")
         ELSE [m EXCEPT !.a = Splice(r1.a, 0, h - l, m.a)]))

\* let mut result = arr[l..r].to_vec(); merge(&arr[l..mid], &arr[mid..r], &mut result);
\* arr[l..r].clone_from_slice(&result)
merge_halves(r, l, mid, h) ==
    Let(Range(Range(Range(r, r.a, l, h), r.a, l, mid), r.a, mid, h), LAMBDA r1 :
    IF ~Ok(r1) THEN r1
    ELSE Let(merge([r1 EXCEPT !.a = Slice(r1.a, l, h)],
                   Slice(r1.a, l, mid), Slice(r1.a, mid, h)).r, LAMBDA m :
         IF ~Ok(m) THEN [m EXCEPT !.a = r1.a]
         ELSE IF Len(m.a) # h - l THEN Panic([m EXCEPT !.a = r1.a], "oob")
         ELSE [m EXCEPT !.a = Splice(r1.a, l, h, m.a)]))

\* #[debug_requires(l <= r && r <= arr.len())]
\* #[debug_ensures(is_sorted(&arr[l..r]))]
\* mergesort(arr, l, r); h is the source's r
\* the log has, for every call that merges, its range and arr as it was on
\* entry, after the sort of each half and on return
RECURSIVE mergesort(_, _, _)
mergesort(r, l, h) ==
    Let(Arith(Check(Tick(r), l <= h /\ h <= Len(r.a)), {h - l}), LAMBDA r0 :
    IF ~Ok(r0) THEN r0
    ELSE IF h - l <= 1 THEN CheckSorted(r0, l, h)
    ELSE Let(l + (h - l) \div 2, LAMBDA mid :
         Let(mergesort(Log(Arith(r0, {mid}),
                 <<"call", "mergesort", h - l, mid - l>>), l, mid), LAMBDA r1 :
         Let(CheckSorted(r1, l, mid), LAMBDA r2 :
         Let(mergesort(Log(r2,
                 <<"call", "mergesort", h - l, h - mid>>), mid, h), LAMBDA r3 :
         Let(CheckSorted(r3, mid, h), LAMBDA r4 :
         Let(merge_halves(r4, l, mid, h), LAMBDA r5 :
         CheckSorted(Log(r5, <<"frame", l, mid, h, r0.a, r2.a, r4.a, r5.a>>),
                     l, h))))))))

merge_sort(r) == EnsuresSorted(mergesort(r, 0, Len(r.a)))

---------------------------------------------------------------------------
(* quick_sort.rs *)

\* debug_assert!(ge_seg(&pivot, &arr[1..left]));
\* debug_assert!(le_seg(&pivot, &arr[right..]))
partition_inv(r, pivot, left, right) ==
    Let(Range(Range(r, r.a, 1, left), r.a, right, Len(r.a)), LAMBDA r1 :
    IF ~Ok(r1) THEN r1
    ELSE Check(Check(r1, ge_seg(pivot, Slice(r1.a, 1, left))),
               le_seg(pivot, Slice(r1.a, right, Len(r1.a)))))

\* while left < right { the invariants; let ok = arr[left] <= pivot;
\*     if ok { left += 1 } else { arr.swap(left, right - 1); right -= 1 } }
\* the mutant: only the elements below the pivot stay on the left
RECURSIVE partition_loop_lt(_, _, _, _)
partition_loop_lt(r, pivot, left, right) ==
    IF ~Ok(r) \/ ~(left < right) THEN [r |-> r, left |-> left, right |-> right]
    ELSE Let(Index(partition_inv(Tick(r), pivot, left, right), r.a, {left}),
             LAMBDA r1 :
         IF ~Ok(r1) THEN [r |-> r1, left |-> left, right |-> right]
         ELSE IF Lt(At(r1.a, left), pivot)
              THEN partition_loop_lt(Arith(r1, {left + 1}), pivot, left + 1, right)
              ELSE Let(Index(Arith(r1, {right - 1}), r1.a, {left, right - 1}),
                       LAMBDA r2 :
                   IF ~Ok(r2) THEN [r |-> r2, left |-> left, right |-> right]
                   ELSE partition_loop_lt([r2 EXCEPT !.a = Swap(@, left, right - 1)],
                                          pivot, left, right - 1)))

RECURSIVE partition_loop(_, _, _, _)
partition_loop(r, pivot, left, right) ==
    IF ~Ok(r) \/ ~(left < right) THEN [r |-> r, left |-> left, right |-> right]
    ELSE Let(Index(partition_inv(Tick(r), pivot, left, right), r.a, {left}),
             LAMBDA r1 :
         IF ~Ok(r1) THEN [r |-> r1, left |-> left, right |-> right]
         ELSE IF Le(At(r1.a, left), pivot)
              THEN partition_loop(Arith(r1, {left + 1}), pivot, left + 1, right)
              ELSE Let(Index(Arith(r1, {right - 1}), r1.a, {left, right - 1}),
                       LAMBDA r2 :
                   IF ~Ok(r2) THEN [r |-> r2, left |-> left, right |-> right]
                   ELSE partition_loop([r2 EXCEPT !.a = Swap(@, left, right - 1)],
                                       pivot, left, right - 1)))

\* #[debug_ensures(ret < arr.len())]
\* #[debug_ensures(ge_seg(&arr[ret], &arr[..ret]))]
\* #[debug_ensures(le_seg(&arr[ret], &arr[ret..]))]
partition_ensures(r, ret) ==
    Let(Range(Index(Check(r, ret < Len(r.a)), r.a, {ret}), r.a, 0, ret), LAMBDA r1 :
    IF ~Ok(r1) THEN r1
    ELSE Check(Check(r1, ge_seg(At(r1.a, ret), Slice(r1.a, 0, ret))),
               le_seg(At(r1.a, ret), Slice(r1.a, ret, Len(r1.a)))))

\* #[debug_requires(pi <= arr.len())]
\* pivot = arr[pi].clone(); arr.swap(0, pi); left = 1; right = arr.len(); the loop;
\* the invariants; debug_assert!(left == right); arr.swap(0, left - 1); left - 1
partition(r, pi) ==
    Let(Index(Check(r, pi <= Len(r.a)), r.a, {pi, 0}), LAMBDA r1 :
    IF ~Ok(r1) THEN [r |-> r1, ret |-> 0]
    ELSE Let(partition_loop([r1 EXCEPT !.a = Swap(@, 0, pi)],
                            At(r1.a, pi), 1, Len(r1.a)), LAMBDA p :
         Let(Check(partition_inv(p.r, At(r1.a, pi), p.left, p.right),
                   p.left = p.right), LAMBDA r2 :
         Let(Index(Arith(r2, {p.left - 1}), r2.a, {0, p.left - 1}), LAMBDA r3 :
         IF ~Ok(r3) THEN [r |-> r3, ret |-> p.left - 1]
         ELSE [r |-> partition_ensures([r3 EXCEPT !.a = Swap(@, 0, p.left - 1)],
                                       p.left - 1),
               ret |-> p.left - 1]))))

\* &mut arr[l..h] handed to a recursive call: the callee sees the sub-slice only
Sub(r, l, h) == [r EXCEPT !.a = Slice(r.a, l, h)]

\* back in the caller: the sub-slice as the callee left it, in its place in arr
Back(s, sub, l, h) ==
    Log([sub EXCEPT !.a = Splice(s, l, h, sub.a)], <<"back", "quick_sort">>)

\* the run a recursive call on arr[l..h] starts from
Enter(r, l, h) == Sub(Log(r, <<"call", "quick_sort", Len(r.a), h - l>>), l, h)

\* the mutant: the right part arr[mid + 1..] is never sorted
RECURSIVE quick_sort_left_only(_)
quick_sort_left_only(r) ==
    Let(Tick(r), LAMBDA r0 :
    IF ~Ok(r0) \/ Len(r0.a) <= 1 THEN EnsuresSorted(r0)
    ELSE Let(partition(r0, Len(r0.a) \div 2), LAMBDA p :
         IF ~Ok(p.r) THEN p.r
         ELSE Let(Range(Log(p.r, <<"split", Len(p.r.a), p.ret, p.r.a>>), p.r.a, 0, p.ret),
                  LAMBDA r1 :
              IF ~Ok(r1) THEN r1
              ELSE Let(quick_sort_left_only(Enter(r1, 0, p.ret)), LAMBDA left :
                   EnsuresSorted(Back(r1.a, left, 0, p.ret))))))

\* the mutant: the pivot is the first element of the range (pi = 0)
RECURSIVE quick_sort_first_pivot(_)
quick_sort_first_pivot(r) ==
    Let(Tick(r), LAMBDA r0 :
    IF ~Ok(r0) \/ Len(r0.a) <= 1 THEN EnsuresSorted(r0)
    ELSE Let(partition(r0, 0), LAMBDA p :
         IF ~Ok(p.r) THEN p.r
         ELSE Let(Range(Log(p.r, <<"split", Len(p.r.a), p.ret, p.r.a>>), p.r.a, 0, p.ret),
                  LAMBDA r1 :
              IF ~Ok(r1) THEN r1
              ELSE Let(quick_sort_first_pivot(Enter(r1, 0, p.ret)), LAMBDA left :
                   Let(Back(r1.a, left, 0, p.ret), LAMBDA r2 :
                   Let(Range(Arith(r2, {p.ret + 1}), r2.a, p.ret + 1, Len(r2.a)),
                       LAMBDA r3 :
                   IF ~Ok(r3) THEN r3
                   ELSE Let(quick_sort_first_pivot(Enter(r3, p.ret + 1, Len(r3.a))),
                            LAMBDA right :
                        EnsuresSorted(Back(r3.a, right, p.ret + 1, Len(r3.a))))))))))

\* the log has the split index of every partition, with the range as the
\* partition left it, and the entry to and the return from every recursive call
\* if arr.len() <= 1 { return }
\* pi = arr.len() / 2; mid = partition(arr, pi);
\* sort(&mut arr[..mid]); sort(&mut arr[mid + 1..])
RECURSIVE quick_sort(_)
quick_sort(r) ==
    Let(Tick(r), LAMBDA r0 :
    IF ~Ok(r0) \/ Len(r0.a) <= 1 THEN EnsuresSorted(r0)
    ELSE Let(partition(r0, Len(r0.a) \div 2), LAMBDA p :
         IF ~Ok(p.r) THEN p.r
         ELSE Let(Range(Log(p.r, <<"split", Len(p.r.a), p.ret, p.r.a>>), p.r.a, 0, p.ret),
                  LAMBDA r1 :
              IF ~Ok(r1) THEN r1
              ELSE Let(quick_sort(Enter(r1, 0, p.ret)), LAMBDA left :
                   Let(Back(r1.a, left, 0, p.ret), LAMBDA r2 :
                   Let(Range(Arith(r2, {p.ret + 1}), r2.a, p.ret + 1, Len(r2.a)),
                       LAMBDA r3 :
                   IF ~Ok(r3) THEN r3
                   ELSE Let(quick_sort(Enter(r3, p.ret + 1, Len(r3.a))),
                            LAMBDA right :
                        EnsuresSorted(Back(r3.a, right, p.ret + 1, Len(r3.a))))))))))

---------------------------------------------------------------------------
(* number_theory/field.rs: Fp<P>, the integers modulo P in a u64 *)

\* u64::MAX, the word being FieldBits wide
FMax == 2^FieldBits - 1

\* a debug build checks overflow and the debug_invariants; a release build
\* wraps and checks neither
Builds == {"debug", "release"}

\* the u64 result of an arithmetic operation whose exact value is v
U64(build, v) ==
    IF 0 <= v /\ v <= FMax THEN [st |-> "ok", v |-> v]
    ELSE IF build = "debug" THEN [st |-> "ovf", v |-> 0]
    ELSE [st |-> "ok", v |-> v % (FMax + 1)]

\* let mut d = 3; while d <= p / d { if p % d == 0 { return false } d += 2 } true
RECURSIVE is_prime_from(_, _)
is_prime_from(p, d) ==
    IF ~(d <= p \div d) THEN TRUE
    ELSE IF p % d = 0 THEN FALSE
    ELSE is_prime_from(p, d + 2)

\* if p < 2 { return false } if p % 2 == 0 { return p == 2 } the loop
is_prime_u64(p) ==
    IF p < 2 THEN FALSE
    ELSE IF p % 2 = 0 THEN p = 2
    ELSE is_prime_from(p, 3)

\* if p == 0 { return false } let m = p - 1; m * m <= u64::MAX
square_bound_ok(build, p) ==
    IF p = 0 THEN [st |-> "ok", v |-> FALSE]
    ELSE Let(U64(build, (p - 1) * (p - 1)), LAMBDA mm :
         IF mm.st # "ok" THEN [st |-> mm.st, v |-> FALSE]
         ELSE [st |-> "ok", v |-> mm.v <= FMax])

\* square_bound_ok(p) && is_prime_u64(p)
valid_modulus(build, p) ==
    Let(square_bound_ok(build, p), LAMBDA sq :
    IF sq.st # "ok" \/ ~sq.v THEN sq
    ELSE [st |-> "ok", v |-> is_prime_u64(p)])

\* #[debug_invariant(valid_modulus(P))] #[debug_invariant(self.0 < P)]
fp_invariant(build, P, x) ==
    IF build # "debug" THEN "ok"
    ELSE Let(valid_modulus(build, P), LAMBDA vm :
         IF vm.st # "ok" THEN vm.st
         ELSE IF ~vm.v \/ ~(x < P) THEN "assert"
         ELSE "ok")

\* Fp::<P>((self.0 * rhs.0) % P), between the checks of the invariants
mul_raw(build, P, a, b) ==
    Let(fp_invariant(build, P, a), LAMBDA pre :
    IF pre # "ok" THEN [st |-> pre, v |-> 0]
    ELSE Let(U64(build, a * b), LAMBDA prod :
         IF prod.st # "ok" THEN [st |-> prod.st, v |-> 0]
         ELSE IF P = 0 THEN [st |-> "div0", v |-> 0]
         ELSE [st |-> fp_invariant(build, P, prod.v % P), v |-> prod.v % P]))

---------------------------------------------------------------------------
(* sort_test_helper.rs: the harness *)

\* the domain of test_many_small_arrays
Domain == {-1, 0, 1}

\* a sequence of keys, each tagged with its position
Tagged(ks) == [i \in 1..Len(ks) |-> <<ks[i], i>>]

SeqsUpTo(S, n) == UNION {[1..k -> S] : k \in 0..n}

\* the worked examples: [5, 5], [3, 1, 2] and the partial sort of [5, 3, 4, 1, 2]
Scenarios == {<<5, 5>>, <<3, 1, 2>>, <<5, 3, 4, 1, 2>>}

Inputs == {Tagged(ks) : ks \in SeqsUpTo(Domain, MaxLen) \cup Scenarios}

\* the extreme values of test_extreme_values, in inputs as long as a slice
\* of the modelled index width can be
Min2(x, y) == IF x <= y THEN x ELSE y

InputsW ==
    {Tagged(ks) : ks \in SeqsUpTo({IntMin, IntMax}, Min2(MaxLenW, MaxSliceLen))}

\* expected.sort(): the library sort the harness compares with, here by
\* repeatedly taking out every copy of the least key
RECURSIVE RefSort(_)
RefSort(ks) ==
    IF ks = <<>> THEN <<>>
    ELSE LET m == CHOOSE x \in {ks[i] : i \in 1..Len(ks)} :
                      \A i \in 1..Len(ks) : x <= ks[i]
             IsMin(x) == x = m
             NotMin(x) == x # m
         IN  SelectSeq(ks, IsMin) \o RefSort(SelectSeq(ks, NotMin))

NoRun == [a |-> <<>>, st |-> "none", n |-> 0, log |-> <<>>]

Fresh ==
    /\ original = arr
    /\ alg = "none"
    /\ lo = 0
    /\ hi = 0
    /\ calls = 0
    /\ run = NoRun
    /\ first = <<>>
    /\ probe = [op |-> "none"]

Init == arr \in Inputs /\ Fresh

InitW == arr \in InputsW /\ Fresh

\* the call on arr[l..h] is over: the slice as the call left it, and its run
Outcome(name, l, h, res) ==
    /\ arr' = Splice(arr, l, h, res.a)
    /\ alg' = name
    /\ lo' = l
    /\ hi' = h
    /\ calls' = calls + 1
    /\ run' = res
    /\ first' = IF calls = 0 THEN arr' ELSE first

Return(name, l, h, res) ==
    /\ Outcome(name, l, h, res)
    /\ UNCHANGED <<original, probe>>

\* sort(&mut arr[l..h]) is called a first time or, as the harness does to
\* check idempotence, a second time on the same range
Called(name, l, h) ==
    \/ calls = 0
    \/ calls = 1 /\ alg = name /\ lo = l /\ hi = h

\* the slice the call is given
Given(l, h) == Start(Slice(arr, l, h))

BubbleSort(l, h) ==
    /\ Called("bubble", l, h)
    /\ \E res \in {bubble_sort(Given(l, h))} : Return("bubble", l, h, res)

SelectionSort(l, h) ==
    /\ Called("selection", l, h)
    /\ \E res \in {selection_sort(Given(l, h))} : Return("selection", l, h, res)

InsertionSort(l, h) ==
    /\ Called("insertion", l, h)
    /\ \E res \in {insertion_sort(Given(l, h))} : Return("insertion", l, h, res)

ShellSort(l, h) ==
    /\ Called("shell", l, h)
    /\ \E res \in {shell_sort(Given(l, h))} : Return("shell", l, h, res)

HeapSort(l, h) ==
    /\ Called("heap", l, h)
    /\ \E res \in {heap_sort(Given(l, h))} : Return("heap", l, h, res)

MergeSort(l, h) ==
    /\ Called("merge", l, h)
    /\ \E res \in {merge_sort(Given(l, h))} : Return("merge", l, h, res)

QuickSort(l, h) ==
    /\ Called("quick", l, h)
    /\ \E res \in {quick_sort(Given(l, h))} : Return("quick", l, h, res)

Ranges == {p \in (0..Len(arr)) \X (0..Len(arr)) : p[1] <= p[2]}

\* any sub-slice arr[l..h], as run_and_compare_partial does
Next ==
    \/ \E p \in Ranges : BubbleSort(p[1], p[2])
    \/ \E p \in Ranges : SelectionSort(p[1], p[2])
    \/ \E p \in Ranges : InsertionSort(p[1], p[2])
    \/ \E p \in Ranges : ShellSort(p[1], p[2])
    \/ \E p \in Ranges : HeapSort(p[1], p[2])
    \/ \E p \in Ranges : MergeSort(p[1], p[2])
    \/ \E p \in Ranges : QuickSort(p[1], p[2])

Spec == Init /\ [][Next]_vars

\* the whole slice only, as run_and_compare_full does
NextW ==
    \/ BubbleSort(0, Len(arr))
    \/ SelectionSort(0, Len(arr))
    \/ InsertionSort(0, Len(arr))
    \/ ShellSort(0, Len(arr))
    \/ HeapSort(0, Len(arr))
    \/ MergeSort(0, Len(arr))
    \/ QuickSort(0, Len(arr))

SpecW == InitW /\ [][NextW]_vars

\* the inputs of test_all_same, test_already_sorted and test_reverse_order, of
\* length n: vec![7; n], (0..n) and (0..n).rev()
Filled(n) ==
    {[i \in 1..n |-> 7], [i \in 1..n |-> i - 1], [i \in 1..n |-> n - i]}

\* with them the inputs are long enough for Shell sort to start above gap 1

InputsGaps ==
    Inputs \cup {Tagged(ks) : ks \in UNION {Filled(n) : n \in (MaxLen + 1)..MaxGapLen}}

InitGaps == arr \in InputsGaps /\ Fresh

NextGaps ==
    \/ ShellSort(0, Len(arr))

SpecGaps == InitGaps /\ [][NextGaps]_vars

\* partition(arr, pi) called on an input, with any pi its declared
\* precondition pi <= arr.len() admits
Partition(pi) ==
    /\ calls = 0
    /\ \E res \in {partition(Start(arr), pi)} :
           /\ Outcome("partition", 0, Len(arr), res.r)
           /\ probe' = [op |-> "partition", pi |-> pi, ret |-> res.ret]
    /\ UNCHANGED original

NextPart ==
    \/ \E pi \in 0..Len(arr) : Partition(pi)

SpecPart == Init /\ [][NextPart]_vars

\* the result buffers merge is handed: the copy arr[l..r].to_vec() that
\* mergesort makes, and buffers of the same length or one longer that hold
\* one value throughout
Buffers ==
    {arr} \cup {[i \in 1..n |-> <<k, 0>>] : n \in Len(arr)..(Len(arr) + 1), k \in Domain}

\* merge(&arr[..m], &arr[m..], &mut buf) with merge's declared preconditions:
\* result.len() >= a.len() + b.len(), is_sorted(a), is_sorted(b)
Merge(m, buf) ==
    /\ calls = 0
    /\ probe.op = "none"
    /\ Len(buf) >= Len(Slice(arr, 0, m)) + Len(Slice(arr, m, Len(arr)))
    /\ is_sorted(Slice(arr, 0, m))
    /\ is_sorted(Slice(arr, m, Len(arr)))
    /\ \E res \in {merge(Start(buf), Slice(arr, 0, m), Slice(arr, m, Len(arr)))} :
           /\ run' = res.r
           /\ probe' = [op |-> "merge", m |-> m, buf |-> buf,
                        i |-> res.i, j |-> res.j, body |-> res.body]
    /\ alg' = "merge_fn"
    /\ UNCHANGED <<arr, original, lo, hi, calls, first>>

NextMerge ==
    \/ \E m \in 0..Len(arr), buf \in Buffers : Merge(m, buf)

SpecMerge == Init /\ [][NextMerge]_vars

\* mergesort(arr, l, r) on a range of an input, with its declared precondition
\* l <= r && r <= arr.len()
MergeSortRange(l, h) ==
    /\ calls = 0
    /\ l <= h /\ h <= Len(arr)
    /\ \E res \in {mergesort(Start(arr), l, h)} :
           /\ Outcome("mergesort", 0, Len(arr), res)
           /\ probe' = [op |-> "mergesort", l |-> l, r |-> h]
    /\ UNCHANGED original

NextRange ==
    \/ \E p \in Ranges : MergeSortRange(p[1], p[2])

SpecRange == Init /\ [][NextRange]_vars

\* sift_down(arr, start, end) on an input, with its declared precondition
\* start <= end && end < arr.len()
SiftDown(start, end) ==
    /\ calls = 0
    /\ start <= end /\ end < Len(arr)
    /\ \E res \in {sift_down(Start(arr), start, end)} :
           Outcome("sift_down", 0, Len(arr), res)
    /\ probe' = [op |-> "sift", start |-> start, end |-> end]
    /\ UNCHANGED original

\* the build loop of heap sort on an input
HeapBuild ==
    /\ calls = 0
    /\ \E res \in {heap_build(Start(arr), Len(arr), Len(arr) \div 2 - 1)} :
           Outcome("heap_build", 0, Len(arr), res)
    /\ probe' = [op |-> "build"]
    /\ UNCHANGED original

NextSift ==
    \/ \E start, end \in 0..(Len(arr) - 1) : SiftDown(start, end)
    \/ HeapBuild

SpecSift == Init /\ [][NextSift]_vars

\* quicksort on the inputs of test_already_sorted, test_reverse_order and
\* test_all_same, and on the small inputs
InputsQuick ==
    Inputs \cup {Tagged(ks) : ks \in UNION {Filled(n) : n \in 1..MaxQuickLen}}

InitQuick == arr \in InputsQuick /\ Fresh

NextQuick ==
    \/ QuickSort(0, Len(arr))

SpecQuick == InitQuick /\ [][NextQuick]_vars

\* the field module has no part in sorting: it starts from no input
InitField == arr = <<>> /\ Fresh

\* square_bound_ok(p) and valid_modulus(p) of any word p
SquareBoundOk(build, p) ==
    /\ probe.op = "none"
    /\ probe' = [op |-> "square_bound_ok", build |-> build, p |-> p,
                 out |-> square_bound_ok(build, p)]
    /\ UNCHANGED <<arr, original, alg, lo, hi, calls, run, first>>

ValidModulus(build, p) ==
    /\ probe.op = "none"
    /\ probe' = [op |-> "valid_modulus", build |-> build, p |-> p,
                 out |-> valid_modulus(build, p)]
    /\ UNCHANGED <<arr, original, alg, lo, hi, calls, run, first>>

\* Fp::<P>(a) * Fp::<P>(b) of two values that satisfy self.0 < P
Mul(build, P, a, b) ==
    /\ probe.op = "none"
    /\ a < P /\ b < P
    /\ probe' = [op |-> "mul", build |-> build, P |-> P, a |-> a, b |-> b,
                 valid |-> valid_modulus(build, P),
                 out |-> mul_raw(build, P, a, b)]
    /\ UNCHANGED <<arr, original, alg, lo, hi, calls, run, first>>

\* one operation is observed in a behaviour, in either build
Pending == IF probe.op = "none" THEN Builds ELSE {}

NextField ==
    \/ \E build \in Pending, p \in 0..FMax : SquareBoundOk(build, p)
    \/ \E build \in Pending, p \in 0..FMax : ValidModulus(build, p)
    \/ \E build \in Pending, P \in 0..FMax : \E a, b \in 0..(P - 1) : Mul(build, P, a, b)

SpecField == InitField /\ [][NextField]_vars

\* is_sorted(&arr[l..h]) on a segment of an input
IsSorted(l, h) ==
    /\ calls = 0
    /\ probe.op = "none"
    /\ probe' = [op |-> "is_sorted", l |-> l, h |-> h,
                 out |-> is_sorted(Slice(arr, l, h))]
    /\ UNCHANGED <<arr, original, alg, lo, hi, calls, run, first>>

\* gt_seg, ge_seg, lt_seg and le_seg of a value x and a segment of an input
SegOfValue(x, l, h) ==
    /\ calls = 0
    /\ probe.op = "none"
    /\ probe' = [op |-> "seg", x |-> x, l |-> l, h |-> h,
                 gt |-> gt_seg(x, Slice(arr, l, h)),
                 ge |-> ge_seg(x, Slice(arr, l, h)),
                 lt |-> lt_seg(x, Slice(arr, l, h)),
                 le |-> le_seg(x, Slice(arr, l, h))]
    /\ UNCHANGED <<arr, original, alg, lo, hi, calls, run, first>>

\* gt_segs, ge_segs, lt_segs and le_segs of two segments of an input
SegOfSeg(l1, h1, l2, h2) ==
    /\ calls = 0
    /\ probe.op = "none"
    /\ probe' = [op |-> "segs", l1 |-> l1, h1 |-> h1, l2 |-> l2, h2 |-> h2,
                 gt |-> gt_segs(Slice(arr, l1, h1), Slice(arr, l2, h2)),
                 ge |-> ge_segs(Slice(arr, l1, h1), Slice(arr, l2, h2)),
                 lt |-> lt_segs(Slice(arr, l1, h1), Slice(arr, l2, h2)),
                 le |-> le_segs(Slice(arr, l1, h1), Slice(arr, l2, h2))]
    /\ UNCHANGED <<arr, original, alg, lo, hi, calls, run, first>>

\* the values a segment is compared with: the keys of the domain, as an
\* element that is not of the input
Values == {<<k, 0>> : k \in Domain}

NextPred ==
    \/ \E p \in Ranges : IsSorted(p[1], p[2])
    \/ \E x \in Values, p \in Ranges : SegOfValue(x, p[1], p[2])
    \/ \E p, q \in Ranges : SegOfSeg(p[1], p[2], q[1], q[2])

SpecPred == Init /\ [][NextPred]_vars

---------------------------------------------------------------------------
(* What the properties are stated with *)

\* every adjacent pair is in order
Sorted(s) == \A i \in 1..(Len(s) - 1) : Key(s[i]) <= Key(s[i + 1])

Occurrences(s, x) == Cardinality({i \in 1..Len(s) : s[i] = x})

\* the same length and the same multiset
Permutation(s, t) ==
    /\ Len(s) = Len(t)
    /\ \A x \in {s[i] : i \in 1..Len(s)} \cup {t[i] : i \in 1..Len(t)} :
           Occurrences(s, x) = Occurrences(t, x)

\* the slice the last call sorted, as it is now and as it was in the input
Now == Slice(arr, lo, hi)
Before == Slice(original, lo, hi)

AllEqual(s) == \A i, j \in 1..Len(s) : Key(s[i]) = Key(s[j])

\* the deepest nesting of calls in a run of quicksort, the outermost call
\* counted: the most calls entered and not yet returned from
Entered(log, i) == Cardinality({j \in 1..i : log[j][1] = "call"})
Left(log, i) == Cardinality({j \in 1..i : log[j][1] = "back"})
Max(S) == CHOOSE x \in S : \A y \in S : y <= x
Depth(log) == 1 + Max({Entered(log, i) - Left(log, i) : i \in 0..Len(log)})

\* the split indices of the partitions of a run, each with the length of the
\* range partitioned
IsSplit(e) == e[1] = "split"
Splits(log) == SelectSeq(log, IsSplit)

\* the slice the last call was given
Input == IF calls = 2 THEN Slice(first, lo, hi) ELSE Before

CallEvents(log) == {i \in 1..Len(log) : log[i][1] = "call"}

\* the gaps of the passes a run of Shell sort made, in the order it made them
IsGap(e) == e[1] = "gap"
GapOf(log) == [i \in 1..Len(log) |-> log[i][2]]
Gaps(log) == GapOf(SelectSeq(log, IsGap))

\* 1, 4, 13, 40, ...: (3^m - 1) / 2
A003462(m) == (3^m - 1) \div 2

---------------------------------------------------------------------------
(* C1..C10 *)

\* C1: when any of the seven sorts returns, the slice it was given is in
\* nondecreasing order.
C1_SortedOnReturn == calls >= 1 => Ok(run) /\ Sorted(Now)

C1_Witness ==
    /\ calls = 1
    /\ alg = "heap"
    /\ hi - lo = MaxLen
    /\ ~Sorted(Before)
    /\ Sorted(Now)

\* C2: after any of the seven sorts the slice has the length it had and the
\* same multiset of elements, and so of values, as the input.
C2_Permutation ==
    calls >= 1 =>
        /\ Len(arr) = Len(original)
        /\ Permutation(Now, Before)
        /\ Permutation(Keys(Now), Keys(Before))

C2_Witness ==
    /\ calls = 1
    /\ alg = "insertion"
    /\ Now # Before
    /\ \E i, j \in 1..Len(Now) : i # j /\ Key(Now[i]) = Key(Now[j])

\* C3: every sort returns on every input; each recursive call of quicksort and
\* of mergesort is on a range strictly shorter than its caller's; the gap loop
\* of Shell sort ends with k = 0.
C3_Terminates ==
    calls >= 1 =>
        /\ Ok(run)
        /\ run.n <= MaxSteps
        /\ \A i \in CallEvents(run.log) : run.log[i][4] < run.log[i][3]
        /\ alg = "shell" => run.log[Len(run.log)] = <<"gaps_end", 0>>

C3_Witness ==
    /\ calls = 1
    /\ alg = "quick"
    /\ hi - lo >= 3
    /\ AllEqual(Before)
    /\ CallEvents(run.log) # {}

\* C4: no sort indexes outside [0, n) or takes a sub-range outside
\* 0 <= lo <= hi <= n, whatever the length n of the slice, 0 and 1 included.
C4_InRange == calls >= 1 => run.st # "oob"

C4_Witness ==
    /\ calls = 1
    /\ alg = "heap"
    /\ hi - lo = 0
    /\ Ok(run)

\* C5: bubble, insertion and merge sort are stable: elements whose keys are
\* equal come out with their input positions increasing.
C5_Stable ==
    calls = 1 /\ alg \in {"bubble", "insertion", "merge"} =>
        \A i, j \in 1..Len(Now) :
            i < j /\ Key(Now[i]) = Key(Now[j]) => Tag(Now[i]) < Tag(Now[j])

C5_Witness ==
    /\ calls = 1
    /\ alg = "merge"
    /\ Now # Before
    /\ \E i, j \in 1..Len(Now) :
           i < j /\ Key(Now[i]) = Key(Now[j]) /\ Tag(Now[j]) > Tag(Now[i]) + 1

\* C6: a sort of arr[lo..hi] leaves arr[..lo] and arr[hi..] as they were and
\* makes arr[lo..hi] the reference sort of what it held.
C6_RangeConfined ==
    calls >= 1 =>
        /\ Slice(arr, 0, lo) = Slice(original, 0, lo)
        /\ Slice(arr, hi, Len(arr)) = Slice(original, hi, Len(original))
        /\ Keys(Now) = RefSort(Keys(Before))

C6_Witness ==
    /\ calls = 1
    /\ alg = "quick"
    /\ Keys(original) = <<5, 3, 4, 1, 2>>
    /\ lo = 1
    /\ hi = 4
    /\ Keys(arr) = <<5, 1, 3, 4, 2>>

\* C7: no debug_requires, debug_ensures or debug_assert fails during a sort.
C7_ContractsHold == calls >= 1 => run.st # "assert"

C7_Witness ==
    /\ calls = 1
    /\ alg = "heap"
    /\ hi - lo >= 3
    /\ ~Sorted(Before)
    /\ Ok(run)

\* C8: sorting the result of a sort leaves it unchanged.
C8_Idempotent == calls = 2 => Ok(run) /\ Keys(arr) = Keys(first)

C8_Witness ==
    /\ calls = 2
    /\ hi - lo >= 3
    /\ ~Sorted(Before)
    /\ Keys(arr) = Keys(first)

\* C9: with W-bit indices and a slice no longer than 2^(W-1) - 1, no index,
\* midpoint or gap computation leaves 0..2^W - 1, the elements being the
\* least and the greatest values of their type.
C9_NoOverflow == calls >= 1 => Len(arr) <= MaxSliceLen /\ run.st # "ovf"

C9_Witness ==
    /\ calls = 1
    /\ alg = "shell"
    /\ Len(arr) = MaxSliceLen
    /\ \E i \in 1..Len(run.log) : run.log[i] = <<"gap", 4>>
    /\ \E i, j \in 1..Len(original) :
           i < j /\ Key(original[i]) = IntMax /\ Key(original[j]) = IntMin
    /\ Ok(run)

\* C10: is_sorted(seg) is true exactly when every adjacent pair of seg is in
\* order.
C10_IsSorted ==
    probe.op = "is_sorted" =>
        probe.out = Sorted(Slice(arr, probe.l, probe.h))

C10_Witness ==
    /\ probe.op = "is_sorted"
    /\ probe.h - probe.l = 3
    /\ ~probe.out
    /\ Key(At(arr, probe.l)) <= Key(At(arr, probe.l + 1))
    /\ Key(At(arr, probe.l + 1)) > Key(At(arr, probe.l + 2))

---------------------------------------------------------------------------
(* C11..C20 *)

\* C11: gt_seg, ge_seg, lt_seg and le_seg of x and seg are true exactly when
\* x is >, >=, <, <= every element of seg, and gt_segs, ge_segs, lt_segs and
\* le_segs of a and b exactly when every element of a is >, >=, <, <= every
\* element of b; so each is true when a segment it is given is empty.
C11_SegPredicates ==
    /\ probe.op = "seg" =>
          LET seg == Slice(arr, probe.l, probe.h)
              I == 1..Len(seg)
          IN  /\ probe.gt = (\A i \in I : Key(probe.x) > Key(seg[i]))
              /\ probe.ge = (\A i \in I : Key(probe.x) >= Key(seg[i]))
              /\ probe.lt = (\A i \in I : Key(probe.x) < Key(seg[i]))
              /\ probe.le = (\A i \in I : Key(probe.x) <= Key(seg[i]))
              /\ seg = <<>> => probe.gt /\ probe.ge /\ probe.lt /\ probe.le
    /\ probe.op = "segs" =>
          LET a == Slice(arr, probe.l1, probe.h1)
              b == Slice(arr, probe.l2, probe.h2)
              I == 1..Len(a)
              J == 1..Len(b)
          IN  /\ probe.gt = (\A i \in I, j \in J : Key(a[i]) > Key(b[j]))
              /\ probe.ge = (\A i \in I, j \in J : Key(a[i]) >= Key(b[j]))
              /\ probe.lt = (\A i \in I, j \in J : Key(a[i]) < Key(b[j]))
              /\ probe.le = (\A i \in I, j \in J : Key(a[i]) <= Key(b[j]))
              /\ a = <<>> \/ b = <<>> =>
                     probe.gt /\ probe.ge /\ probe.lt /\ probe.le

\* gt_segs is false although the greatest element of a is above all of b
C11_Witness ==
    /\ probe.op = "segs"
    /\ probe.h1 - probe.l1 >= 2
    /\ probe.h2 - probe.l2 >= 2
    /\ ~probe.gt
    /\ probe.ge
    /\ \E i \in (probe.l1 + 1)..probe.h1 :
           \A j \in (probe.l2 + 1)..probe.h2 : Key(arr[i]) > Key(arr[j])

\* C12: for a slice of length n the passes of Shell sort are at the gaps that
\* start at the least member of 1, 4, 13, 40, ... that is not below n / 3 and
\* go down through the consecutive members to 1, the last pass; for n = 10
\* they are 4, 1.
C12_ShellGaps ==
    calls >= 1 /\ alg = "shell" =>
        LET g == Gaps(run.log)
            n == hi - lo
        IN  /\ Ok(run)
            /\ Len(g) >= 1
            /\ g[Len(g)] = 1
            /\ \A i \in 1..Len(g) : g[i] = A003462(Len(g) + 1 - i)
            /\ \A i \in 1..(Len(g) - 1) : g[i] > g[i + 1] /\ g[i] = 3 * g[i + 1] + 1
            /\ g[1] >= n \div 3
            /\ Len(g) >= 2 => g[2] < n \div 3
            /\ n = 10 => g = <<4, 1>>

C12_Witness ==
    /\ calls = 1
    /\ alg = "shell"
    /\ Len(arr) = 10
    /\ ~Sorted(original)
    /\ Sorted(arr)
    /\ Gaps(run.log) = <<4, 1>>

\* C13: every call partition(arr, pi) with pi <= arr.len() completes and
\* returns ret < arr.len() with the pivot that was at arr[pi] now at arr[ret],
\* every element of arr[..ret] <= arr[ret], every element of arr[ret..] >=
\* arr[ret], and arr a permutation of what it was.
C13_Partition ==
    probe.op = "partition" =>
        /\ Ok(run)
        /\ probe.ret < Len(arr)
        /\ At(arr, probe.ret) = At(original, probe.pi)
        /\ \A i \in 0..(probe.ret - 1) : Le(At(arr, i), At(arr, probe.ret))
        /\ \A i \in probe.ret..(Len(arr) - 1) : Ge(At(arr, i), At(arr, probe.ret))
        /\ Permutation(arr, original)

\* C14: for sorted a and b and a result buffer at least len(a) + len(b) long,
\* merge leaves in result[0 .. len(a) + len(b)) the stable merge of a and b:
\* sorted, the elements of a and of b and no others, those of a in the order
\* they had in a, those of b in the order they had in b, and no element of b
\* before an element of a that compares equal to it; it ends with i = len(a)
\* and j = len(b).
C14_StableMerge ==
    probe.op = "merge" =>
        LET a == Slice(arr, 0, probe.m)
            b == Slice(arr, probe.m, Len(arr))
            out == Slice(run.a, 0, Len(a) + Len(b))
            FromA(x) == Tag(x) <= probe.m
            FromB(x) == Tag(x) > probe.m
        IN  /\ probe.body
            /\ probe.i = Len(a)
            /\ probe.j = Len(b)
            /\ Len(run.a) = Len(probe.buf)
            /\ Sorted(out)
            /\ Permutation(out, a \o b)
            /\ SelectSeq(out, FromA) = a
            /\ SelectSeq(out, FromB) = b
            /\ \A p, q \in 1..Len(out) :
                   p < q /\ Key(out[p]) = Key(out[q]) /\ FromB(out[p]) => FromB(out[q])

\* a tie between a and b, with elements of b below and above it, merged into
\* a buffer that held something else
C14_Witness ==
    /\ probe.op = "merge"
    /\ probe.m = 2
    /\ Len(arr) = 4
    /\ probe.buf # arr
    /\ Len(probe.buf) = Len(arr)
    /\ Key(arr[1]) < Key(arr[2])
    /\ Key(arr[3]) = Key(arr[1])
    /\ Key(arr[4]) = Key(arr[2])
    /\ Ok(run)
    /\ run.a = <<arr[1], arr[3], arr[2], arr[4]>>

\* C15: on return from every call of merge whose declared preconditions hold,
\* is_sorted(result) holds of the whole result buffer, whatever the buffer
\* held before the call.
C15_MergeEnsures ==
    probe.op = "merge" => Ok(run) /\ Sorted(run.a)

\* the parent of node j
Parent(j) == (j - 1) \div 2

\* arr[parent] >= arr[j] for every node j of (start, end] whose parent is in P
HeapOn(s, start, end, P) ==
    \A j \in (start + 1)..end : Parent(j) \in P => Ge(At(s, Parent(j)), At(s, j))

\* C16: sift_down(arr, start, end) with start <= end < len makes every node
\* of (start, end] whose parent is >= start no greater than its parent,
\* provided that held before of the nodes whose parent is > start; each of
\* its steps looks at a node, from start down the chain of picked children,
\* and the larger of its children at 2p+1 and 2p+2 that are <= end, swaps
\* them when the child is greater and stops when it is not; no position
\* outside [start, end] changes.  After the build loop of heap sort every
\* node is no greater than its parent and arr[0] is a maximum.
C16_SiftDown ==
    /\ probe.op = "sift" =>
          LET start == probe.start
              end == probe.end
              log == run.log
              Kids(p) == {c \in {2 * p + 1, 2 * p + 2} : c <= end}
          IN  /\ Ok(run)
              /\ HeapOn(original, start, end, (start + 1)..end)
                     => HeapOn(arr, start, end, start..end)
              /\ \A i \in 0..(Len(arr) - 1) :
                     i < start \/ i > end => At(arr, i) = At(original, i)
              /\ \A e \in 1..Len(log) :
                     /\ log[e][1] = "sift"
                     /\ log[e][2] = IF e = 1 THEN start ELSE log[e - 1][3]
                     /\ log[e][3] \in Kids(log[e][2])
                     /\ \A c \in Kids(log[e][2]) :
                            Ge(At(log[e][5], log[e][3]), At(log[e][5], c))
                     /\ log[e][4] = Lt(At(log[e][5], log[e][2]), At(log[e][5], log[e][3]))
                     /\ log[e][5] = IF e = 1 THEN original
                                    ELSE Swap(log[e - 1][5], log[e - 1][2], log[e - 1][3])
                     /\ e < Len(log) => log[e][4]
              /\ arr = IF log = <<>> THEN original
                       ELSE IF log[Len(log)][4]
                            THEN Swap(log[Len(log)][5], log[Len(log)][2], log[Len(log)][3])
                            ELSE log[Len(log)][5]
              /\ log # <<>> /\ log[Len(log)][4] => Kids(log[Len(log)][3]) = {}
              /\ log = <<>> => Kids(start) = {}
    /\ probe.op = "build" =>
          /\ Ok(run)
          /\ is_heap(arr)
          /\ HeapOn(arr, 0, Len(arr) - 1, 0..Len(arr))
          /\ \A i \in 1..Len(arr) : Key(arr[1]) >= Key(arr[i])
          /\ Permutation(arr, original)

\* the root goes down two levels, under the larger of its two children and
\* then under that child's only child
C16_Witness ==
    /\ probe.op = "sift"
    /\ probe.start = 0
    /\ probe.end = 3
    /\ HeapOn(original, 0, 3, 1..3)
    /\ Len(run.log) = 2
    /\ run.log[1][3] = 1
    /\ Key(original[2]) > Key(original[3])
    /\ run.log[1][4]
    /\ run.log[2][4]
    /\ HeapOn(arr, 0, 3, 0..3)

\* C17: bubble sort on a slice of length n makes passes cnt = 1, 2, ..., each
\* over every adjacent pair (so the greatest of the first n - cnt + 1
\* elements ends at position n - cnt), at most n of them; a pass that swaps
\* nothing is the last and the sort returns with the slice as that pass left
\* it; on a slice of length n >= 1 already in order there is exactly one
\* pass and it swaps nothing.
C17_BubblePasses ==
    calls >= 1 /\ alg = "bubble" =>
        LET P == run.log
            n == hi - lo
            Was(i) == IF i = 1 THEN Input ELSE P[i - 1][4]
        IN  /\ Ok(run)
            /\ Len(P) <= n
            /\ \A i \in 1..Len(P) :
                   /\ P[i][1] = "pass"
                   /\ P[i][2] = i
                   /\ P[i][3] = (P[i][4] # Was(i))
                   /\ Permutation(P[i][4], Was(i))
                   /\ \A q \in 0..(n - i) : Le(At(P[i][4], q), At(P[i][4], n - i))
                   /\ i < Len(P) => P[i][3]
            /\ n >= 1 => Len(P) >= 1 /\ Now = P[Len(P)][4]
            /\ n >= 1 => Len(P) = n \/ ~P[Len(P)][3]
            /\ n >= 1 /\ Sorted(Input) => Len(P) = 1 /\ ~P[1][3] /\ Now = Input

\* three passes that swap and a fourth that does not
C17_Witness ==
    /\ calls = 1
    /\ alg = "bubble"
    /\ hi - lo = 4
    /\ Len(run.log) = 4
    /\ run.log[3][3]
    /\ ~run.log[4][3]
    /\ Sorted(Now)

\* the input of the last run was (0..n) or (0..n).rev()
Ascending == Keys(original) = [i \in 1..Len(original) |-> i - 1]
Descending == Keys(original) = [i \in 1..Len(original) |-> Len(original) - i]

C19_FieldMul ==
    /\ probe.op = "mul" /\ probe.valid = [st |-> "ok", v |-> TRUE] =>
          /\ probe.a * probe.b <= FMax
          /\ probe.out = [st |-> "ok", v |-> (probe.a * probe.b) % probe.P]
          /\ probe.out.v < probe.P
    /\ probe.op = "square_bound_ok" =>
          /\ probe.out.st = "ok"
          /\ probe.out.v = (probe.p >= 1 /\ (probe.p - 1) * (probe.p - 1) <= FMax)

\* the recursive calls of a run: the length of the caller's range and the
\* length of the range handed over, in the order of the calls
IsCall(e) == e[1] = "call"
Calls(log) == SelectSeq(log, IsCall)

\* C20: on a sequence of n >= 1 elements that all compare equal every
\* partition of quicksort, of a range of m elements with the pivot at m / 2,
\* returns the split index m - 1 and leaves the keys of the range as they
\* were; the left recursive call receives m - 1 elements and the right one
\* none, so the calls nest n deep, one per element, and the sort ends
\* without a panic with the sequence unchanged.
C20_AllEqualDegenerate ==
    calls = 1 /\ alg = "quick" /\ Len(original) >= 1 /\ AllEqual(original) =>
        LET n == Len(original)
            s == Splits(run.log)
            c == Calls(run.log)
        IN  /\ Ok(run)
            /\ Keys(arr) = Keys(original)
            /\ Len(s) = n - 1
            /\ \A i \in 1..Len(s) :
                   /\ s[i][2] = n - i + 1
                   /\ s[i][3] = s[i][2] - 1
                   /\ Keys(s[i][4]) = [k \in 1..s[i][2] |-> Key(original[1])]
            /\ Len(c) = 2 * (n - 1)
            /\ \A i \in 1..(n - 1) :
                   /\ c[i][3] = n - i + 1 /\ c[i][4] = n - i
                   /\ c[n - 1 + i][3] = i + 1 /\ c[n - 1 + i][4] = 0
            /\ Depth(run.log) = n

C20_Witness ==
    /\ calls = 1
    /\ alg = "quick"
    /\ Len(original) = MaxQuickLen
    /\ AllEqual(original)
    /\ Ok(run)
    /\ Splits(run.log)[1][3] = MaxQuickLen - 1
    /\ Depth(run.log) = MaxQuickLen
    /\ Keys(arr) = Keys(original)
    /\ Len(Calls(run.log)) = 2 * (MaxQuickLen - 1)

\* the calls of a run of mergesort that merged, each with its range [l, r),
\* its mid and arr on entry, after each half and on return
IsFrame(e) == e[1] = "frame"
Frames(log) == SelectSeq(log, IsFrame)

\* s and t are as long as each other and differ at no position outside [l, h)
SameOutside(s, t, l, h) ==
    /\ Len(s) = Len(t)
    /\ \A k \in 0..(Len(s) - 1) : k < l \/ k >= h => At(s, k) = At(t, k)

\* out is the stable merge of a and b, whose elements are all distinct: it is
\* sorted, has the elements of a and of b, each in the order they had, and
\* among elements that compare equal those of a come first
MergeOf(out, a, b) ==
    LET InA(x) == \E k \in 1..Len(a) : a[k] = x
        InB(x) == \E k \in 1..Len(b) : b[k] = x
    IN  /\ Sorted(out)
        /\ Permutation(out, a \o b)
        /\ SelectSeq(out, InA) = a
        /\ SelectSeq(out, InB) = b
        /\ \A p, q \in 1..Len(out) :
               p < q /\ Key(out[p]) = Key(out[q]) /\ InB(out[p]) => InB(out[q])

\* C21: mergesort(arr, l, r) with l <= r <= len(arr) changes no position of
\* arr outside [l, r), and so does every call it nests; within a call the
\* sort of the first half changes [l, mid) only and the sort of the second
\* half [mid, r) only, so arr[l..mid] is still the sorted first half when
\* merge reads it; arr[l..r) on return is the stable merge of the two halves
\* as they were when the sort of the second half returned, the merge having
\* written to a copy.
C21_MergesortFrame ==
    probe.op = "mergesort" =>
        /\ Ok(run)
        /\ SameOutside(arr, original, probe.l, probe.r)
        /\ \A i \in 1..Len(Frames(run.log)) :
               LET e == Frames(run.log)[i]
                   l == e[2]
                   mid == e[3]
                   h == e[4]
               IN  /\ probe.l <= l /\ l < mid /\ mid < h /\ h <= probe.r
                   /\ SameOutside(e[6], e[5], l, mid)
                   /\ SameOutside(e[7], e[6], mid, h)
                   /\ SameOutside(e[8], e[7], l, h)
                   /\ SameOutside(e[8], e[5], l, h)
                   /\ Sorted(Slice(e[7], l, mid))
                   /\ Sorted(Slice(e[7], mid, h))
                   /\ MergeOf(Slice(e[8], l, h), Slice(e[7], l, mid), Slice(e[7], mid, h))

\* [3, 4, 1] inside [5, 3, 4, 1, 2]: the sort of the second half turns [4, 1]
\* into [1, 4], the merge puts 1 in front of 3, and 5 and 2 stay
C21_Witness ==
    /\ probe.op = "mergesort"
    /\ probe.l = 1
    /\ probe.r = 4
    /\ Keys(original) = <<5, 3, 4, 1, 2>>
    /\ Ok(run)
    /\ Keys(arr) = <<5, 1, 3, 4, 2>>
    /\ \E i \in 1..Len(Frames(run.log)) :
           LET e == Frames(run.log)[i]
           IN  /\ e[2] = 1 /\ e[3] = 2 /\ e[4] = 4
               /\ e[6] = e[5]
               /\ Keys(e[7]) = <<5, 3, 1, 4, 2>>
               /\ e[8] = arr

===========================================================================
